---- MODULE Spec2Model ----
(***************************************************************************)
(* A model of the SearXNG maubot plugin (src/searxng/searxng.py): the      *)
(* normalizer parse_json with its helper translate_engine, and the         *)
(* renderer prepare_message, run in the order of the sx command.           *)
(*                                                                         *)
(* Python values are tagged records, so that None, "", 0, [] and {} stay   *)
(* distinct values with Python's truthiness.  A Python str is a sequence   *)
(* of one-character strings.  An exception leaving a function is the       *)
(* value Raised(<exception class>).                                        *)
(***************************************************************************)
EXTENDS Integers, Sequences, FiniteSets, TLC

(***************************************************************************)
(* Python values                                                           *)
(***************************************************************************)
PyNone == [t |-> "none"]
PyStr(s) == [t |-> "str", s |-> s]
PyInt(n) == [t |-> "int", n |-> n]
PyList(l) == [t |-> "list", l |-> l]
PyDict(d) == [t |-> "dict", d |-> d]
Raised(e) == [t |-> "raised", exc |-> e]

EmptyStr == PyStr(<<>>)
EmptyList == PyList(<<>>)
EmptyDict == PyDict([k \in {} |-> PyNone])

\* bool(v): the truth value Python gives v in a condition (if v, v and w, not v)
Truthy(v) ==
    CASE v.t = "none" -> FALSE
      [] v.t = "str"  -> v.s # <<>>
      [] v.t = "int"  -> v.n # 0
      [] v.t = "list" -> v.l # <<>>
      [] v.t = "dict" -> DOMAIN v.d # {}
      [] OTHER        -> TRUE

\* d.get(k): the default argument dropped
Get_without_default(d, k, default) == IF k \in DOMAIN d THEN d[k] ELSE PyNone

\* d.get(k, default) on the mapping d of a dict
Get(d, k, default) == IF k \in DOMAIN d THEN d[k] ELSE default

(***************************************************************************)
(* str methods                                                             *)
(***************************************************************************)
LowerCase == <<"a","b","c","d","e","f","g","h","i","j","k","l","m",
               "n","o","p","q","r","s","t","u","v","w","x","y","z">>
UpperCase == <<"A","B","C","D","E","F","G","H","I","J","K","L","M",
               "N","O","P","Q","R","S","T","U","V","W","X","Y","Z">>
Digits == <<"0","1","2","3","4","5","6","7","8","9">>
Whitespace == {" ", "\t", "\n", "\r"}

IsLower(c) == \E i \in DOMAIN LowerCase : LowerCase[i] = c
IsUpper(c) == \E i \in DOMAIN UpperCase : UpperCase[i] = c
ToUpper(c) == IF IsLower(c) THEN UpperCase[CHOOSE i \in DOMAIN LowerCase : LowerCase[i] = c] ELSE c
ToLower(c) == IF IsUpper(c) THEN LowerCase[CHOOSE i \in DOMAIN UpperCase : UpperCase[i] = c] ELSE c

\* s.replace(old, new) for one-character old and new
replace(s, old, new) == [i \in DOMAIN s |-> IF s[i] = old THEN new ELSE s[i]]

\* s.split(): the maximal runs of non-whitespace characters, in order
RECURSIVE split_from(_, _, _)
split_from(s, cur, parts) ==
    IF s = <<>> THEN (IF cur = <<>> THEN parts ELSE Append(parts, cur))
    ELSE IF Head(s) \in Whitespace
         THEN split_from(Tail(s), <<>>, IF cur = <<>> THEN parts ELSE Append(parts, cur))
         ELSE split_from(Tail(s), Append(cur, Head(s)), parts)
split(s) == split_from(s, <<>>, <<>>)

\* s.title(): a cased character is upper-cased when it follows an uncased
\* one (or starts the string) and lower-cased when it follows a cased one
RECURSIVE title_from(_, _)
title_from(s, previous_is_cased) ==
    IF s = <<>> THEN <<>>
    ELSE LET c == Head(s) IN
         IF IsLower(c)
         THEN <<IF previous_is_cased THEN c ELSE ToUpper(c)>> \o title_from(Tail(s), TRUE)
         ELSE IF IsUpper(c)
         THEN <<IF previous_is_cased THEN ToLower(c) ELSE c>> \o title_from(Tail(s), TRUE)
         ELSE <<c>> \o title_from(Tail(s), FALSE)
title(s) == title_from(s, FALSE)

\* sep.join(parts)
RECURSIVE join(_, _)
join(sep, parts) ==
    IF parts = <<>> THEN <<>>
    ELSE IF Len(parts) = 1 THEN parts[1]
    ELSE parts[1] \o sep \o join(sep, Tail(parts))

\* str(n) of an int
RECURSIVE digits_of(_)
digits_of(n) == IF n < 10 THEN <<Digits[n + 1]>> ELSE digits_of(n \div 10) \o <<Digits[(n % 10) + 1]>>
int_str(n) == IF n < 0 THEN <<"-">> \o digits_of(0 - n) ELSE digits_of(n)

\* str(v), which is also what an f-string field {v} gives
str(v) ==
    CASE v.t = "str"  -> v.s
      [] v.t = "int"  -> int_str(v.n)
      [] v.t = "none" -> <<"N","o","n","e">>
      [] v = [t |-> "list", l |-> <<>>] -> <<"[","]">>

(***************************************************************************)
(* resources/engines.py                                                    *)
(***************************************************************************)
engine_dict ==
       (<<"d","u","c","k","d","u","c","k","g","o">> :> <<"D","u","c","k","D","u","c","k","G","o">>)
    @@ (<<"i","m","d","b">> :> <<"I","M","D","b">>)
    @@ (<<"t","i","n","e","y","e">> :> <<"T","i","n","E","y","e">>)
    @@ (<<"f","i","n","d","t","h","a","t","m","e","m","e">> :> <<"F","i","n","d","T","h","a","t","M","e","m","e">>)
    @@ (<<"p","e","e","r","t","u","b","e">> :> <<"P","e","e","r","T","u","b","e">>)
    @@ (<<"y","o","u","t","u","b","e">> :> <<"Y","o","u","T","u","b","e">>)
    @@ (<<"o","p","e","n","s","t","r","e","e","t","m","a","p">> :> <<"O","p","e","n","S","t","r","e","e","t","M","a","p">>)
    @@ (<<"m","i","x","c","l","o","u","d">> :> <<"M","i","x","C","l","o","u","d">>)
    @@ (<<"s","o","u","n","d","c","l","o","u","d">> :> <<"S","o","u","n","d","C","l","o","u","d">>)
    @@ (<<"n","p","m">> :> <<"n","p","m">>)
    @@ (<<"p","y","p","i">> :> <<"P","y","P","I">>)
    @@ (<<"r","u","b","y","g","e","m","s">> :> <<"R","u","b","y","G","e","m","s">>)
    @@ (<<"v","o","i","d","l","i","n","u","x">> :> <<"V","o","i","d"," ","L","i","n","u","x">>)
    @@ (<<"a","s","k","u","b","u","n","t","u">> :> <<"A","s","k","U","b","u","n","t","u">>)
    @@ (<<"s","t","a","c","k","o","v","e","r","f","l","o","w">> :> <<"S","t","a","c","k","O","v","e","r","f","l","o","w">>)
    @@ (<<"s","u","p","e","r","u","s","e","r">> :> <<"S","u","p","e","r","U","s","e","r">>)
    @@ (<<"g","i","t","h","u","b">> :> <<"G","i","t","H","u","b">>)
    @@ (<<"g","i","t","l","a","b">> :> <<"G","i","t","L","a","b">>)
    @@ (<<"h","u","g","g","i","n","g","f","a","c","e">> :> <<"H","u","g","g","i","n","g","F","a","c","e">>)
    @@ (<<"h","a","c","k","e","r","n","e","w","s">> :> <<"H","a","c","k","e","r","N","e","w","s">>)
    @@ (<<"m","d","n">> :> <<"M","D","N">>)
    @@ (<<"a","r","x","i","v">> :> <<"a","r","X","i","v">>)
    @@ (<<"a","p","k","m","i","r","r","o","r">> :> <<"A","P","K"," ","M","i","r","r","o","r">>)
    @@ (<<"f","d","r","o","i","d">> :> <<"F","-","D","r","o","i","d">>)
    @@ (<<"n","y","a","a">> :> <<"n","y","a","a">>)
    @@ (<<"p","i","r","a","t","e","b","a","y">> :> <<"T","h","e","P","i","r","a","t","e","B","a","y">>)
    @@ (<<"r","o","t","t","e","n","t","o","m","a","t","o","e","s">> :> <<"R","o","t","t","e","n","T","o","m","a","t","o","e","s">>)
    @@ (<<"t","m","d","b">> :> <<"T","M","D","b">>)
    @@ (<<"o","p","e","n","m","e","t","e","o">> :> <<"O","p","e","n","-","M","e","t","e","o">>)

(***************************************************************************)
(* SearxngBot.translate_engine                                             *)
(***************************************************************************)
\* translate_engine title-casing every token, the table not consulted
translate_engine_title_only(name) ==
    IF ~Truthy(name) THEN <<>>
    ELSE LET name_parts == split(name.s)
         IN join(<<" ">>, [i \in DOMAIN name_parts |-> title(name_parts[i])])

\* name is None or a str (possibly empty); the result is a str
translate_engine(name) ==
    IF ~Truthy(name) THEN <<>>
    ELSE LET name_parts == split(name.s)
             translated == [i \in DOMAIN name_parts |->
                               IF name_parts[i] \in DOMAIN engine_dict
                               THEN engine_dict[name_parts[i]]
                               ELSE title(name_parts[i])]
         IN join(<<" ">>, translated)

(***************************************************************************)
(* time.gmtime / time.strftime("%H:%M:%S", ...)                            *)
(***************************************************************************)
two_digits(n) == <<Digits[(n \div 10) + 1], Digits[(n % 10) + 1]>>

\* gmtime(secs) is calendar time: tm_hour is the hour of the day
gmtime(secs) == [tm_hour |-> (secs \div 3600) % 24,
                 tm_min  |-> (secs \div 60) % 60,
                 tm_sec  |-> secs % 60]

strftime_HMS(tm) ==
    two_digits(tm.tm_hour) \o <<":">> \o two_digits(tm.tm_min) \o <<":">> \o two_digits(tm.tm_sec)

(***************************************************************************)
(* urllib.parse.urlunsplit on [scheme, netloc, url, "", ""]                *)
(***************************************************************************)
uses_netloc == { <<>>, <<"f","t","p">>, <<"h","t","t","p">>, <<"h","t","t","p","s">>,
                 <<"f","i","l","e">>, <<"w","s">>, <<"w","s","s">>, <<"g","i","t">> }

urlunsplit(scheme, netloc, url) ==
    LET with_netloc ==
            IF netloc # <<>> \/ (scheme # <<>> /\ scheme \in uses_netloc /\ SubSeq(url, 1, 2) # <<"/","/">>)
            THEN <<"/","/">> \o netloc \o (IF url # <<>> /\ Head(url) # "/" THEN <<"/">> \o url ELSE url)
            ELSE url
    IN IF scheme # <<>> THEN scheme \o <<":">> \o with_netloc ELSE with_netloc

(***************************************************************************)
(* resources/datastructures.py                                             *)
(***************************************************************************)
LinkData(label, url, url_label) ==
    [t |-> "LinkData", label |-> label, url |-> url, url_label |-> url_label]

AddressData(name, house_number, road, locality, postcode, country) ==
    [t |-> "AddressData", name |-> name, house_number |-> house_number, road |-> road,
     locality |-> locality, postcode |-> postcode, country |-> country]

\* the fields that parse_json copies from the result entry with
\* result.get(key, default): record field, raw key, default
StrFields == { <<"url", "url">>, <<"content", "content">>, <<"title", "title">>,
               <<"published_date", "publishedDate">>, <<"thumbnail", "thumbnail">>,
               <<"author", "author">>, <<"publisher", "publisher">>, <<"views", "views">>,
               <<"metadata", "metadata">>, <<"magnetlink", "magnetlink">>,
               <<"filesize", "filesize">>, <<"pdf_url", "pdf_url">>, <<"doi", "doi">>,
               <<"journal", "journal">>, <<"comment", "comment">>,
               <<"maintainer", "maintainer">>, <<"license_name", "license_name">>,
               <<"license_url", "license_url">>, <<"homepage", "homepage">>,
               <<"source_code_url", "source_code_url">>, <<"package_name", "package_name">> }
ListFields == { <<"authors", "authors">>, <<"issn", "issn">> }

(***************************************************************************)
(* SearxngBot.parse_json                                                   *)
(***************************************************************************)
SearXNGPrefix == <<"S","e","a","r","X","N","G"," ","(">>
SearXNGSuffix == <<")">>

\* engine_field leaving an empty engine unwrapped
engine_field_unwrapped(result) ==
    LET engine == Get(result, "engine", EmptyStr) IN
    IF ~Truthy(engine) THEN engine
    ELSE IF engine.t # "str" THEN Raised("AttributeError")
    ELSE PyStr(SearXNGPrefix \o translate_engine(PyStr(replace(engine.s, ".", " "))) \o SearXNGSuffix)

\* lines 81-83 and 122: the engine field, or Raised when .replace is
\* called on a truthy value that is not a str
engine_field(result) ==
    LET engine == Get(result, "engine", EmptyStr) IN
    IF Truthy(engine) /\ engine.t # "str" THEN Raised("AttributeError")
    ELSE LET replaced == IF Truthy(engine) THEN PyStr(replace(engine.s, ".", " ")) ELSE engine
         IN PyStr(SearXNGPrefix \o translate_engine(replaced) \o SearXNGSuffix)

\* links_field inserting every link at the front of the list
links_field_prepending(result) ==
    LET raw == Get(result, "links", EmptyList) IN
    IF ~Truthy(raw) THEN EmptyList
    ELSE IF raw.t = "int" THEN Raised("TypeError")
    ELSE IF raw.t # "list" THEN Raised("AttributeError")
    ELSE IF \E i \in DOMAIN raw.l : raw.l[i].t # "dict" THEN Raised("AttributeError")
    ELSE PyList([i \in DOMAIN raw.l |->
                    LinkData(Get(raw.l[Len(raw.l) + 1 - i].d, "label", EmptyStr),
                             Get(raw.l[Len(raw.l) + 1 - i].d, "url", EmptyStr),
                             Get(raw.l[Len(raw.l) + 1 - i].d, "url_label", EmptyStr))])

\* lines 84-92: the links list, or Raised when the raw links value cannot
\* be iterated or an entry of it has no .get
links_field(result) ==
    LET raw == Get(result, "links", EmptyList) IN
    IF ~Truthy(raw) THEN EmptyList
    ELSE IF raw.t = "int" THEN Raised("TypeError")
    ELSE IF raw.t # "list" THEN Raised("AttributeError")
    ELSE IF \E i \in DOMAIN raw.l : raw.l[i].t # "dict" THEN Raised("AttributeError")
    ELSE PyList([i \in DOMAIN raw.l |->
                    LinkData(Get(raw.l[i].d, "label", EmptyStr),
                             Get(raw.l[i].d, "url", EmptyStr),
                             Get(raw.l[i].d, "url_label", EmptyStr))])

\* lines 93-102: the address, or Raised when the raw value is truthy and
\* has no .get
address_field(result) ==
    LET raw == Get(result, "address", PyNone) IN
    IF ~Truthy(raw) THEN PyNone
    ELSE IF raw.t # "dict" THEN Raised("AttributeError")
    ELSE AddressData(Get(raw.d, "name", EmptyStr),
                     Get(raw.d, "house_number", EmptyStr),
                     Get(raw.d, "road", EmptyStr),
                     Get(raw.d, "locality", EmptyStr),
                     Get(raw.d, "postcode", EmptyStr),
                     Get(raw.d, "country", EmptyStr))

\* lines 103-105: the length, or Raised when gmtime is given no number
length_field(result) ==
    LET length == Get(result, "length", EmptyStr) IN
    IF Truthy(length) /\ length.t # "str"
    THEN (IF length.t = "int" THEN PyStr(strftime_HMS(gmtime(length.n)))
          ELSE Raised("TypeError"))
    ELSE length

\* lines 107-110: the torrent file, or Raised when len() or the list
\* concatenation or urlunsplit rejects its argument
torrentfile_field(result) ==
    LET parsed_url == Get(result, "parsed_url", EmptyList)
        torrentfile == Get(result, "torrentfile", EmptyStr)
    IN
    IF ~Truthy(torrentfile) THEN torrentfile
    ELSE IF parsed_url.t \in {"none", "int"} THEN Raised("TypeError")
    ELSE IF parsed_url.t = "dict"
         THEN (IF Cardinality(DOMAIN parsed_url.d) >= 2 THEN Raised("TypeError") ELSE torrentfile)
    ELSE IF parsed_url.t = "str"
         THEN (IF Len(parsed_url.s) >= 2 THEN Raised("TypeError") ELSE torrentfile)
    ELSE IF Len(parsed_url.l) < 2 THEN torrentfile
    ELSE LET scheme == parsed_url.l[1]
             netloc == parsed_url.l[2]
             mixed == IF scheme.t = "str"
                      THEN torrentfile.t # "str" \/ (Truthy(netloc) /\ netloc.t # "str")
                      ELSE torrentfile.t = "str" \/ (Truthy(netloc) /\ netloc.t = "str")
         IN \* _coerce_args: no mix of str and non-str arguments, and a
            \* non-str argument must have .decode
            IF mixed THEN Raised("TypeError")
            ELSE IF scheme.t # "str" THEN Raised("AttributeError")
            ELSE PyStr(urlunsplit(scheme.s, IF Truthy(netloc) THEN netloc.s ELSE <<>>, torrentfile.s))

\* count_field testing the truth value instead of "is not None"
count_field_if_truthy(result, key) ==
    LET v == Get(result, key, EmptyStr) IN
    IF Truthy(v) THEN PyStr(str(v)) ELSE v

\* lines 111-116: seed and leech
count_field(result, key) ==
    LET v == Get(result, key, EmptyStr) IN
    IF v # PyNone THEN PyStr(str(v)) ELSE v

\* lines 80-148, on the result entry results[0]
parse_result(entry) ==
    IF entry.t # "dict" THEN Raised("AttributeError")
    ELSE LET result == entry.d
             engine == engine_field(result)
             links == links_field(result)
             address == address_field(result)
             length == length_field(result)
             torrentfile == torrentfile_field(result)
         IN CASE engine.t = "raised"      -> engine
              [] links.t = "raised"       -> links
              [] address.t = "raised"     -> address
              [] length.t = "raised"      -> length
              [] torrentfile.t = "raised" -> torrentfile
              [] OTHER ->
                 [t               |-> "SearchData",
                  url             |-> Get(result, "url", EmptyStr),
                  links           |-> links,
                  content         |-> Get(result, "content", EmptyStr),
                  title           |-> Get(result, "title", EmptyStr),
                  engine          |-> engine,
                  published_date  |-> Get(result, "publishedDate", EmptyStr),
                  thumbnail       |-> Get(result, "thumbnail", EmptyStr),
                  author          |-> Get(result, "author", EmptyStr),
                  authors         |-> Get(result, "authors", EmptyList),
                  publisher       |-> Get(result, "publisher", EmptyStr),
                  views           |-> Get(result, "views", EmptyStr),
                  length          |-> length,
                  metadata        |-> Get(result, "metadata", EmptyStr),
                  seed            |-> count_field(result, "seed"),
                  leech           |-> count_field(result, "leech"),
                  magnetlink      |-> Get(result, "magnetlink", EmptyStr),
                  torrentfile     |-> torrentfile,
                  filesize        |-> Get(result, "filesize", EmptyStr),
                  address         |-> address,
                  pdf_url         |-> Get(result, "pdf_url", EmptyStr),
                  doi             |-> Get(result, "doi", EmptyStr),
                  journal         |-> Get(result, "journal", EmptyStr),
                  issn            |-> Get(result, "issn", EmptyList),
                  comment         |-> Get(result, "comment", EmptyStr),
                  maintainer      |-> Get(result, "maintainer", EmptyStr),
                  license_name    |-> Get(result, "license_name", EmptyStr),
                  license_url     |-> Get(result, "license_url", EmptyStr),
                  homepage        |-> Get(result, "homepage", EmptyStr),
                  source_code_url |-> Get(result, "source_code_url", EmptyStr),
                  package_name    |-> Get(result, "package_name", EmptyStr)]

\* first_result reading the last entry instead of the first
last_result(results) == results[Len(results)]

\* line 80: the entry that parse_json reads
first_result(results) == results[1]

\* lines 78-149
parse_json(data) ==
    IF ~Truthy(data) THEN PyNone
    ELSE IF data.t # "dict" THEN Raised("AttributeError")
    ELSE LET results == Get(data.d, "results", PyNone) IN
         IF ~Truthy(results) THEN PyNone
         ELSE CASE results.t = "list" -> parse_result(first_result(results.l))
                [] results.t = "dict" -> Raised("KeyError")
                [] results.t = "str"  -> Raised("AttributeError")
                [] OTHER              -> Raised("TypeError")

(***************************************************************************)
(* SearxngBot.prepare_message                                              *)
(*                                                                         *)
(* body and html are built by appending; each is modelled as the sequence  *)
(* of the blocks appended, a block being the pieces of its f-strings:      *)
(* Lit for the fixed text and Fmt for a formatted field.  A block with no  *)
(* pieces for one of the two strings appends nothing to it.  Characters    *)
(* that a TLA+ string cannot hold are written by name: the two emoji of    *)
(* the download block as :arrow_down: and :magnet:, the grave accent of    *)
(* the header as :backtick:.                                               *)
(***************************************************************************)
Lit(text) == [lit |-> text]
Val(chars) == [val |-> chars]
Fmt(v) == Val(str(v))
\* {v if v else ''}
FmtOrEmpty(v) == IF Truthy(v) THEN Fmt(v) ELSE Val(<<>>)

\* what one if-block appends to body and to html when its condition holds
Block(sec, on, body, html) ==
    [sec |-> sec, on |-> on, body |-> IF on THEN body ELSE <<>>, html |-> IF on THEN html ELSE <<>>]

URL_TRIM == 70
Ellipsis == <<".", ".", ".">>
NotAvailable == <<"N", "/", "A">>
SentenceEnd == {".", "!", "?"}

\* s.split(sep)[0]: the characters before the first sep
RECURSIVE before_first(_, _)
before_first(s, sep) ==
    IF s = <<>> \/ Head(s) = sep THEN <<>> ELSE <<Head(s)>> \o before_first(Tail(s), sep)

\* line 195
pub_date_of(data) ==
    IF Truthy(data.published_date) THEN before_first(data.published_date.s, "T") ELSE <<>>

\* lines 196-198
url_trimmed_of(data) ==
    IF Truthy(data.url) /\ Len(data.url.s) >= URL_TRIM
    THEN PyStr(SubSeq(data.url.s, 1, URL_TRIM) \o Ellipsis)
    ELSE data.url

\* ", ".join(items) of a list of str
comma_join(items) == join(<<",", " ">>, [i \in DOMAIN items.l |-> items.l[i].s])

\* lines 199-207
sec_header(data) ==
    Block("header", TRUE,
          <<Lit("> :backtick:"), Fmt(url_trimmed_of(data)), Lit(":backtick:  \n> [**"), Fmt(data.title),
            Lit("**]("), Fmt(data.url), Lit(")  \n>  \n")>>,
          <<Lit("<blockquote><table><tr><td><sub><code>"), Fmt(url_trimmed_of(data)),
            Lit("</code></sub><br><b><a href=\""), Fmt(data.url), Lit("\">"),
            Fmt(data.title), Lit("</a></b>")>>)

\* lines 209-211
sec_pub_date(data) ==
    Block("pub_date", pub_date_of(data) # <<>>,
          <<Lit("> "), Val(pub_date_of(data)), Lit("  \n>  \n")>>,
          <<Lit("<p><sub>"), Val(pub_date_of(data)), Lit("</sub></p>")>>)

\* the one-line blocks of lines 212-220, 224-230, 242-244, 257-262:
\* a label and the field
labelled(sec, label, v) ==
    Block(sec, Truthy(v),
          <<Lit("> > **" \o label \o ":** "), Fmt(v), Lit("  \n>  \n")>>,
          <<Lit("<blockquote><b>" \o label \o ":</b> "), Fmt(v), Lit("</blockquote>")>>)

\* lines 212-214
sec_length(data) == labelled("length", "Length", data.length)
\* lines 215-217
sec_views(data) == labelled("views", "Views", data.views)
\* lines 218-220
sec_author(data) == labelled("author", "Author", data.author)

\* lines 221-223
sec_authors(data) ==
    Block("authors", Truthy(data.authors),
          <<Lit("> > **Authors:** "), Val(comma_join(data.authors)), Lit("  \n>  \n")>>,
          <<Lit("<blockquote><b>Authors:</b> "), Val(comma_join(data.authors)), Lit("</blockquote>")>>)

\* lines 224-226
sec_publisher(data) == labelled("publisher", "Publisher", data.publisher)
\* lines 228-230
sec_journal(data) == labelled("journal", "Journal", data.journal)

\* lines 231-233
sec_doi(data) ==
    Block("doi", Truthy(data.doi),
          <<Lit("> > **Digital Identifier:** ["), Fmt(data.doi), Lit("](https://oadoi.org/"),
            Fmt(data.doi), Lit(")  \n>  \n")>>,
          <<Lit("<blockquote><b>Digital Identifier:</b> <a href=\"https://oadoi.org/"),
            Fmt(data.doi), Lit("\">"), Fmt(data.doi), Lit("</a></blockquote>")>>)

\* lines 234-236
sec_issn(data) ==
    Block("issn", Truthy(data.issn),
          <<Lit("> > **ISSN:** "), Val(comma_join(data.issn)), Lit("  \n>  \n")>>,
          <<Lit("<blockquote><b>ISSN:</b> "), Val(comma_join(data.issn)), Lit("</blockquote>")>>)

\* seeders_leechers_of taking a count of zero for an absent one
seeders_leechers_zero_absent(data) ==
    (IF Truthy(data.seed) /\ data.seed.s # <<"0">> THEN str(data.seed) ELSE NotAvailable)
    \o <<"/">> \o
    (IF Truthy(data.leech) /\ data.leech.s # <<"0">> THEN str(data.leech) ELSE NotAvailable)

\* line 239
seeders_leechers_of(data) ==
    (IF Truthy(data.seed) THEN str(data.seed) ELSE NotAvailable)
    \o <<"/">> \o
    (IF Truthy(data.leech) THEN str(data.leech) ELSE NotAvailable)

\* lines 238-241
sec_seeders_leechers(data) ==
    Block("seeders_leechers", Truthy(data.seed) \/ Truthy(data.leech),
          <<Lit("> > **Seeders/Leechers:** "), Val(seeders_leechers_of(data)), Lit("  \n>  \n")>>,
          <<Lit("<blockquote><b>Seeders/Leechers:</b> "), Val(seeders_leechers_of(data)),
            Lit("</blockquote>")>>)

\* lines 242-244
sec_filesize(data) == labelled("filesize", "Size", data.filesize)

\* lines 245-255
sec_download(data) ==
    Block("download", Truthy(data.magnetlink) \/ Truthy(data.torrentfile),
          <<Lit("> > ")>>
          \o (IF Truthy(data.torrentfile)
              THEN <<Lit("[**:arrow_down: Torrent**]("), Fmt(data.torrentfile), Lit(") ")>> ELSE <<>>)
          \o (IF Truthy(data.magnetlink)
              THEN <<Lit("[**:magnet: Magnet**]("), Fmt(data.magnetlink), Lit(")")>> ELSE <<>>)
          \o <<Lit("  \n>  \n")>>,
          <<Lit("<blockquote>")>>
          \o (IF Truthy(data.torrentfile)
              THEN <<Lit("<b><a href=\""), Fmt(data.torrentfile), Lit("\">:arrow_down: Torrent</a></b> ")>>
              ELSE <<>>)
          \o (IF Truthy(data.magnetlink)
              THEN <<Lit("<b><a href=\""), Fmt(data.magnetlink), Lit("\">:magnet: Magnet</a></b>")>>
              ELSE <<>>)
          \o <<Lit("</blockquote>")>>)

\* lines 257-259
sec_package_name(data) == labelled("package_name", "Name", data.package_name)
\* lines 260-262
sec_maintainer(data) == labelled("maintainer", "Maintainer", data.maintainer)

\* lines 263-276
sec_project(data) ==
    LET home_body == IF Truthy(data.homepage)
                     THEN <<Lit("[Homepage]("), Fmt(data.homepage), Lit(")")>> ELSE <<>>
        home_html == IF Truthy(data.homepage)
                     THEN <<Lit("<a href=\""), Fmt(data.homepage), Lit("\">Homepage</a>")>> ELSE <<>>
        bar == IF home_body # <<>> THEN <<Lit(" | ")>> ELSE <<>>
        code_body == IF Truthy(data.source_code_url)
                     THEN bar \o <<Lit("[Source code]("), Fmt(data.source_code_url), Lit(")")>>
                     ELSE <<>>
        code_html == IF Truthy(data.source_code_url)
                     THEN bar \o <<Lit("<a href=\""), Fmt(data.source_code_url), Lit("\">Source code</a>")>>
                     ELSE <<>>
    IN Block("project", Truthy(data.homepage) \/ Truthy(data.source_code_url),
             <<Lit("> > **Project:** ")>> \o home_body \o code_body \o <<Lit("  \n>  \n")>>,
             <<Lit("<blockquote><b>Project:</b> ")>> \o home_html \o code_html \o <<Lit("</blockquote>")>>)

\* lines 277-285
sec_license(data) ==
    LET license_body == IF Truthy(data.license_url)
                        THEN <<Lit("["), Fmt(data.license_name), Lit("]("), Fmt(data.license_url), Lit(")")>>
                        ELSE <<Fmt(data.license_name)>>
        license_html == IF Truthy(data.license_url)
                        THEN <<Lit("<a href=\""), Fmt(data.license_url), Lit("\">"),
                               Fmt(data.license_name), Lit("</a>")>>
                        ELSE <<Fmt(data.license_name)>>
    IN Block("license", Truthy(data.license_name),
             <<Lit("> > **License:** ")>> \o license_body \o <<Lit("  \n>  \n")>>,
             <<Lit("<blockquote><b>License:</b> ")>> \o license_html \o <<Lit("</blockquote>")>>)

\* lines 287-289
sec_metadata(data) ==
    Block("metadata", Truthy(data.metadata),
          <<Lit("> > **"), Fmt(data.metadata), Lit("**  \n>  \n")>>,
          <<Lit("<blockquote><b>"), Fmt(data.metadata), Lit("</b></blockquote>")>>)

\* line 291
content_of(data) ==
    data.content.s \o (IF data.content.s[Len(data.content.s)] \in SentenceEnd THEN <<>> ELSE Ellipsis)

\* lines 290-293
sec_content(data) ==
    Block("content", Truthy(data.content),
          <<Lit("> "), Val(content_of(data)), Lit("  \n>  \n")>>,
          <<Lit("<p>"), Val(content_of(data)), Lit("</p>")>>)

\* lines 294-296
sec_comment(data) ==
    Block("comment", Truthy(data.comment),
          <<Lit("> *"), Fmt(data.comment), Lit("*  \n>  \n")>>,
          <<Lit("<p><i>"), Fmt(data.comment), Lit("</i></p>")>>)

\* "sep".join of the pieces of each entry
RECURSIVE join_pieces(_, _)
join_pieces(sep, entries) ==
    IF entries = <<>> THEN <<>>
    ELSE IF Len(entries) = 1 THEN entries[1]
    ELSE entries[1] \o <<sep>> \o join_pieces(sep, Tail(entries))

\* lines 298-302
sec_links(data) ==
    LET ls == data.links.l IN
    Block("links", Truthy(data.links),
          <<Lit("> > **Links:**  \n")>>
          \o join_pieces(Lit("  \n"),
                 [i \in DOMAIN ls |-> <<Lit("> > "), Fmt(ls[i].label), Lit(": ["),
                                        Fmt(ls[i].url_label), Lit("]("), Fmt(ls[i].url), Lit(")")>>])
          \o <<Lit("  \n>  \n")>>,
          <<Lit("<blockquote><b>Links:</b><br>")>>
          \o join_pieces(Lit("<br>"),
                 [i \in DOMAIN ls |-> <<Fmt(ls[i].label), Lit(": <a href=\""), Fmt(ls[i].url),
                                        Lit("\">"), Fmt(ls[i].url_label), Lit("</a>")>>])
          \o <<Lit("</blockquote>")>>)

\* lines 303-319
sec_address(data) ==
    LET a == data.address
        on == Truthy(a)
        road_body == IF on /\ Truthy(a.road)
                     THEN <<Lit("> > "), Fmt(a.road), Lit(" "), FmtOrEmpty(a.house_number), Lit("  \n")>>
                     ELSE <<>>
        road_html == IF on /\ Truthy(a.road)
                     THEN <<Fmt(a.road), Lit(" "), FmtOrEmpty(a.house_number), Lit("<br>")>>
                     ELSE <<>>
        locality_body == IF on /\ Truthy(a.locality)
                         THEN <<Lit("> > "), Fmt(a.locality), Lit(" "), FmtOrEmpty(a.postcode), Lit("  \n")>>
                         ELSE <<>>
        locality_html == IF on /\ Truthy(a.locality)
                         THEN <<Fmt(a.locality), Lit(" "), FmtOrEmpty(a.postcode), Lit("<br>")>>
                         ELSE <<>>
        country_body == IF on /\ Truthy(a.country)
                        THEN <<Lit("> > "), Fmt(a.country), Lit("  \n")>> ELSE <<>>
        country_html == IF on /\ Truthy(a.country) THEN <<Fmt(a.country)>> ELSE <<>>
    IN Block("address", on,
             IF on
             THEN <<Lit("> > **Address:**  \n> > "), FmtOrEmpty(a.name), Lit("  \n")>>
                  \o road_body \o locality_body \o country_body \o <<Lit(">  \n")>>
             ELSE <<>>,
             IF on
             THEN <<Lit("<blockquote><b>Address:</b><br>"), FmtOrEmpty(a.name), Lit("<br>")>>
                  \o road_html \o locality_html \o country_html \o <<Lit("</blockquote>")>>
             ELSE <<>>)

\* sec_pdf appending to html only
sec_pdf_html_only(data) ==
    Block("pdf", Truthy(data.pdf_url),
          <<>>,
          <<Lit("<br><b><a href=\""), Fmt(data.pdf_url), Lit("\">PDF</a></b>")>>)

\* lines 320-322
sec_pdf(data) ==
    Block("pdf", Truthy(data.pdf_url),
          <<Lit("> [**PDF**]("), Fmt(data.pdf_url), Lit(")  \n>  \n")>>,
          <<Lit("<br><b><a href=\""), Fmt(data.pdf_url), Lit("\">PDF</a></b>")>>)

\* line 323
sec_cell_end(data) == Block("cell_end", TRUE, <<>>, <<Lit("</td>")>>)

\* lines 325-330
sec_thumbnail(data) ==
    Block("thumbnail", Truthy(data.thumbnail),
          <<>>,
          <<Lit("<td><img src=\""), Fmt(data.thumbnail), Lit("\" height=\"150\" /></td>")>>)

\* lines 331-337
sec_footer(data) ==
    Block("footer", TRUE,
          <<Lit("> **Results from "), Fmt(data.engine), Lit("**")>>,
          <<Lit("</tr></table><p><b><sub>Results from "), Fmt(data.engine),
            Lit("</sub></b></p></blockquote>")>>)

\* blocks_of with the content appended before the metadata and the
\* thumbnail cell after the footer
blocks_of_reordered(data) ==
    << sec_header(data), sec_pub_date(data), sec_length(data), sec_views(data),
       sec_author(data), sec_authors(data), sec_publisher(data), sec_journal(data),
       sec_doi(data), sec_issn(data), sec_seeders_leechers(data), sec_filesize(data),
       sec_download(data), sec_package_name(data), sec_maintainer(data), sec_project(data),
       sec_license(data), sec_content(data), sec_metadata(data), sec_comment(data),
       sec_links(data), sec_address(data), sec_pdf(data), sec_cell_end(data),
       sec_footer(data), sec_thumbnail(data) >>

\* lines 199-337: the blocks in the order of the statements that append them
blocks_of(data) ==
    << sec_header(data), sec_pub_date(data), sec_length(data), sec_views(data),
       sec_author(data), sec_authors(data), sec_publisher(data), sec_journal(data),
       sec_doi(data), sec_issn(data), sec_seeders_leechers(data), sec_filesize(data),
       sec_download(data), sec_package_name(data), sec_maintainer(data), sec_project(data),
       sec_license(data), sec_metadata(data), sec_content(data), sec_comment(data),
       sec_links(data), sec_address(data), sec_pdf(data), sec_cell_end(data),
       sec_thumbnail(data), sec_footer(data) >>

\* what the blocks whose condition holds append to body (which = "body")
\* or to html (which = "html")
appended(blocks, which) ==
    LET Appends(b) == b.on /\ b[which] # <<>>
        kept == SelectSeq(blocks, Appends)
    IN [i \in DOMAIN kept |-> [sec |-> kept[i].sec, parts |-> kept[i][which]]]

\* lines 189-342
prepare_message(data) ==
    [t              |-> "TextMessageEventContent",
     msgtype        |-> "m.notice",
     format         |-> "org.matrix.custom.html",
     body           |-> appended(blocks_of(data), "body"),
     formatted_body |-> appended(blocks_of(data), "html")]

(***************************************************************************)
(* Payloads: the decoded JSON that get_result hands to parse_json          *)
(***************************************************************************)
MaxEngineLen == 3
MaxHours == 25
MaxTail == 2

NoKeys == [k \in {} |-> PyNone]
With(d, k, v) == (k :> v) @@ d
Without(d, k) == [x \in DOMAIN d \ {k} |-> d[x]]
\* d with key k missing, or set to one of vals
Varied(d, k, vals) == {Without(d, k)} \cup {With(d, k, v) : v \in vals}

ScalarKeys == {f[2] : f \in StrFields}
ListKeys == {f[2] : f \in ListFields}

\* a sample value for each key, all different
Sample ==
    [url |-> <<"u">>, content |-> <<"c", ".">>, title |-> <<"t">>,
     publishedDate |-> <<"1","9","7","0","T","0","0">>, thumbnail |-> <<"i">>,
     author |-> <<"a">>, publisher |-> <<"p">>, views |-> <<"1","0">>,
     metadata |-> <<"m">>, magnetlink |-> <<"m","a","g">>, filesize |-> <<"1","G">>,
     pdf_url |-> <<"p","d","f">>, doi |-> <<"d">>, journal |-> <<"j">>,
     comment |-> <<"k">>, maintainer |-> <<"w">>, license_name |-> <<"M","I","T">>,
     license_url |-> <<"l","u">>, homepage |-> <<"h","p">>,
     source_code_url |-> <<"s","c">>, package_name |-> <<"p","k","g">>]

SampleList == PyList(<<PyStr(<<"x">>), PyStr(<<"y">>)>>)
SampleAddress ==
    PyDict([name |-> PyStr(<<"N">>), house_number |-> PyStr(<<"0">>), road |-> PyStr(<<"R">>),
            locality |-> PyStr(<<"C">>), postcode |-> PyStr(<<"0","0">>),
            country |-> PyStr(<<"L">>), country_code |-> PyStr(<<"x","x">>)])
SampleLink(c) == PyDict([label |-> PyStr(<<"l", c>>), url |-> PyStr(<<"u", c>>),
                         url_label |-> PyStr(<<"n", c>>)])
SampleParsedUrl ==
    PyList(<<PyStr(<<"h","t","t","p","s">>), PyStr(<<"e",".","c">>), PyStr(<<"/","v">>),
             EmptyStr, EmptyStr, EmptyStr>>)

\* a result entry with every key null (lists empty), as in the test
\* test_parse_json_when_data_does_not_exists_return_empty_SearchData
AllNull ==
    [k \in ScalarKeys \cup {"length", "seed", "leech", "torrentfile", "engine"} |-> PyNone]
    @@ [k \in ListKeys \cup {"links", "parsed_url"} |-> EmptyList]
    @@ ("address" :> PyDict([k \in {"name", "house_number", "road", "locality", "postcode",
                                    "country", "country_code"} |-> PyNone]))

\* a result entry with every key set, as in the test
\* test_parse_json_when_data_exists_return_SearchData
Full ==
    [k \in ScalarKeys |-> PyStr(Sample[k])]
    @@ [k \in ListKeys |-> SampleList]
    @@ [length |-> PyInt(1050), seed |-> PyInt(100), leech |-> PyInt(15),
        torrentfile |-> PyStr(<<"/","d",".","t">>), parsed_url |-> SampleParsedUrl,
        engine |-> PyStr(<<"s","e","a","r","c","h"," ","e","n","g","i","n","e">>),
        address |-> SampleAddress, links |-> PyList(<<SampleLink("1"), SampleLink("2")>>)]

Bases == {NoKeys, AllNull, Full}

\* every copied key in turn: missing, null, empty or set
ExtraValues(k) ==
    CASE k = "content"       -> {PyStr(<<"c">>), PyStr(<<"c", "!">>), PyStr(<<"c", "?">>)}
      [] k = "publishedDate" -> {PyStr(<<"T">>), PyStr(<<"1","9","7","0">>)}
      [] k = "views"         -> {PyInt(1000)}
      [] OTHER               -> {}
FieldEntries ==
    UNION {Varied(b, k, {PyNone, EmptyStr, PyStr(Sample[k])} \cup ExtraValues(k))
             : b \in Bases, k \in ScalarKeys}
    \cup UNION {Varied(b, k, {PyNone, EmptyList, SampleList, PyList(<<PyStr(<<"x">>)>>)})
                  : b \in Bases, k \in ListKeys}

\* engine names
EngineAlphabet == {"n", "p", "m", "B", ".", " "}
EngineNames ==
    UNION {[1..n -> EngineAlphabet] : n \in 0..MaxEngineLen}
    \cup { <<"d","u","c","k","d","u","c","k","g","o">>,
           <<"b","r","a","v","e"," ","s","e","a","r","c","h">>,
           <<"c","u","s","t","o","m","e","n","g","i","n","e">>,
           <<"v","o","i","d","l","i","n","u","x">>,
           <<"g","o","o","g","l","e",".","i","m","a","g","e","s">>,
           <<"a","r","x","i","v","\t","f","-","d","r","o","i","d"," ","A","r","X","i","v">>,
           <<"w","i","k","i","2","d","a","t","a">> }
EngineEntries == Varied(NoKeys, "engine", {PyNone} \cup {PyStr(e) : e \in EngineNames})

\* lengths: seconds up to MaxHours hours and more, strings, null
Lengths ==
    {PyInt(h * 3600 + m * 60 + s) : h \in 0..MaxHours, m \in {0, 5, 59}, s \in {0, 30, 59}}
    \cup {PyNone, EmptyStr, PyStr(<<"1",":","0","2">>), PyStr(<<"9","0","0","0","0">>)}
LengthEntries == Varied(NoKeys, "length", Lengths)

\* seed and leech
Counts == {PyNone, PyInt(0), PyInt(7), PyInt(100), PyStr(<<"1","2">>), EmptyStr}
CountEntries ==
    UNION {Varied(e, "leech", Counts) : e \in UNION {Varied(b, "seed", Counts) : b \in {NoKeys, Full}}}

\* torrentfile, parsed_url and magnetlink
TorrentFiles == {PyNone, EmptyStr, PyStr(<<"/","d",".","t">>), PyStr(<<"d",".","t">>)}
ParsedUrls ==
    {PyNone, EmptyList, PyList(<<PyStr(<<"h","t","t","p","s">>)>>),
     PyList(<<PyStr(<<"h","t","t","p","s">>), PyStr(<<"e",".","c">>)>>),
     PyList(<<PyStr(<<"h","t","t","p">>), PyStr(<<"e",".","c">>), PyStr(<<"/","v">>)>>),
     SampleParsedUrl}
TorrentEntries ==
    UNION {Varied(e, "magnetlink", {PyStr(Sample["magnetlink"])})
             : e \in UNION {Varied(t, "parsed_url", ParsedUrls)
                              : t \in Varied(NoKeys, "torrentfile", TorrentFiles)}}

\* address: every sub-field missing, null or set; address itself missing,
\* null or empty
AddressKeys == {"name", "house_number", "road", "locality", "postcode", "country"}
SubFieldValues == {"missing", "null", "set"}
AddressOf(choice) ==
    PyDict([k \in {x \in AddressKeys : choice[x] # "missing"} |->
               IF choice[k] = "null" THEN PyNone ELSE SampleAddress.d[k]])
AddressEntries ==
    Varied(NoKeys, "address",
           {PyNone, EmptyDict, SampleAddress,
            PyDict([road |-> EmptyStr, name |-> EmptyStr, country |-> PyStr(<<"L">>)])}
           \cup {AddressOf(c) : c \in [AddressKeys -> SubFieldValues]})

\* links
LinkEntries ==
    Varied(NoKeys, "links",
           {PyNone, EmptyList, PyList(<<SampleLink("1")>>),
            PyList(<<SampleLink("1"), SampleLink("2")>>),
            PyList(<<SampleLink("2"), SampleLink("1"), SampleLink("3")>>),
            PyList(<<PyDict([label |-> PyStr(<<"l">>)]), EmptyDict,
                     PyDict([url |-> PyNone, url_label |-> PyStr(<<"n">>)])>>)})

\* the fields that share a block of the message
PairEntries ==
    UNION {Varied(e, "source_code_url", {PyNone, PyStr(Sample["source_code_url"])})
             : e \in Varied(NoKeys, "homepage", {PyNone, PyStr(Sample["homepage"])})}
    \cup UNION {Varied(e, "license_url", {PyNone, PyStr(Sample["license_url"])})
                  : e \in Varied(NoKeys, "license_name", {PyNone, PyStr(Sample["license_name"])})}

\* URLs one character shorter than the display limit, at it and beyond it
UrlOfLen(n) == PyStr([i \in 1..n |-> Digits[(i % 10) + 1]])
UrlEntries ==
    UNION {Varied(b, "url", {UrlOfLen(n) : n \in {1, URL_TRIM - 1, URL_TRIM, URL_TRIM + 1, URL_TRIM + 9}})
             : b \in {NoKeys, Full}}

\* one field of an unexpected type
MalformedEntries ==
    Varied(NoKeys, "address", {PyStr(<<"x">>), PyInt(5), PyList(<<PyStr(<<"x">>)>>), EmptyList})
    \cup Varied(NoKeys, "length", {PyList(<<PyInt(1)>>), EmptyList, EmptyDict})
    \cup Varied(NoKeys, "links", {PyStr(<<"x">>), PyInt(5), PyList(<<PyStr(<<"x">>)>>),
                                  PyList(<<SampleLink("1"), PyNone>>), SampleLink("1")})
    \cup Varied(NoKeys, "engine", {PyInt(5), PyList(<<PyStr(<<"n","p","m">>)>>), EmptyList})
    \cup Varied(NoKeys, "seed", {EmptyList})
    \cup Varied(NoKeys, "parsed_url", {PyInt(5), PyStr(<<"x">>)})

ResultEntries ==
    FieldEntries \cup EngineEntries \cup LengthEntries \cup CountEntries \cup TorrentEntries
    \cup AddressEntries \cup LinkEntries \cup PairEntries \cup UrlEntries \cup MalformedEntries

\* the entries after results[0] and the other top-level keys
TailEntries == {PyDict(NoKeys), PyDict(Full), PyDict(AllNull), PyNone}
Tails == UNION {[1..n -> TailEntries] : n \in 0..MaxTail}
TopLevels == {NoKeys, [query |-> PyStr(<<"q">>), number_of_results |-> PyInt(0)]}
HeadEntries == {NoKeys, AllNull, Full, [engine |-> PyStr(<<"n","p","m">>), url |-> PyStr(<<"u">>)]}

Payload(top, head, tail) == PyDict(With(top, "results", PyList(<<PyDict(head)>> \o tail)))

NoResultPayloads ==
    {PyNone, EmptyStr, EmptyDict, PyDict([query |-> PyStr(<<"q">>)]),
     PyDict([results |-> EmptyList]), PyDict([results |-> PyNone]),
     PyDict([query |-> PyStr(<<"q">>), number_of_results |-> PyInt(0), results |-> EmptyList])}

Payloads ==
    NoResultPayloads
    \cup {Payload(NoKeys, e, <<>>) : e \in ResultEntries}
    \cup {Payload(top, head, tail) : top \in TopLevels, head \in HeadEntries, tail \in Tails}

(***************************************************************************)
(* The sx command: sanitizing the query (search, lines 40-45)              *)
(***************************************************************************)
\* s.strip(): s without its leading and trailing whitespace
strip(s) ==
    LET kept == {i \in DOMAIN s : s[i] \notin Whitespace} IN
    IF kept = {} THEN <<>>
    ELSE SubSeq(s, CHOOSE i \in kept : \A j \in kept : i <= j,
                   CHOOSE i \in kept : \A j \in kept : j <= i)

\* s.replace(old, ""): the occurrences of old found from left to right,
\* without overlap, are removed
RECURSIVE remove(_, _)
remove(s, old) ==
    IF Len(s) < Len(old) THEN s
    ELSE IF SubSeq(s, 1, Len(old)) = old THEN remove(SubSeq(s, Len(old) + 1, Len(s)), old)
    ELSE <<Head(s)>> \o remove(Tail(s), old)

\* line 42
sanitize(query) == remove(remove(strip(query), <<"!", "!">>), <<"\\">>)

(***************************************************************************)
(* Configuration lookups (lines 344-373)                                   *)
(***************************************************************************)
\* a value that a dict cannot take as a key
Unhashable(v) == v.t \in {"list", "dict"}

\* lines 349-351; the address is kept as the pair that the f-string joins
get_address(config) ==
    [url  |-> Get(config, "url", PyStr(<<"h","t","t","p",":","/","/","1","2","7",".","0",".","0",".","1">>)),
     port |-> Get(config, "port", PyInt(8080))]

\* lines 358-362
safesearch_base ==
    (<<"o","n">> :> <<"2">>) @@ (<<"m","o","d","e","r","a","t","e">> :> <<"1">>)
    @@ (<<"o","f","f">> :> <<"0">>)

\* lines 353-363: dict.get hashes its key, and raises for a key that
\* cannot be hashed
get_safesearch(config) ==
    LET key == Get(config, "safesearch", PyStr(<<"m","o","d","e","r","a","t","e">>)) IN
    IF Unhashable(key) THEN Raised("TypeError")
    ELSE IF key.t = "str" /\ key.s \in DOMAIN safesearch_base THEN PyStr(safesearch_base[key.s])
    ELSE PyStr(safesearch_base[<<"m","o","d","e","r","a","t","e">>])

\* resources/languages.py: the locale whitelist
locales == { <<"a","l","l">>, <<"e","n">>, <<"p","l">>, <<"e","n","-","U","S">> }

\* lines 365-373
get_language(config) ==
    LET lang == Get(config, "language", PyStr(<<"a","l","l">>)) IN
    IF lang.t = "str" /\ lang.s \in locales THEN lang ELSE PyStr(<<"a","l","l">>)

(***************************************************************************)
(* What the command is given: the query, the configuration and what the   *)
(* backend answers                                                         *)
(***************************************************************************)
MaxQueryLen == 3
QueryAlphabet == {"!", "\\", " ", "a"}
Queries == UNION {[1..n -> QueryAlphabet] : n \in 0..MaxQueryLen}
DefaultQuery == <<"a">>

SafesearchValues ==
    {PyNone, EmptyStr, PyStr(<<"o","n">>), PyStr(<<"o","f","f">>),
     PyStr(<<"m","o","d","e","r","a","t","e">>), PyStr(<<"O","N">>), PyInt(1),
     PyList(<<PyStr(<<"o","n">>)>>)}
LanguageValues ==
    {PyNone, EmptyStr, PyStr(<<"a","l","l">>), PyStr(<<"p","l">>), PyStr(<<"P","L">>),
     PyStr(<<"x","x">>), PyInt(1), PyList(<<PyStr(<<"p","l">>)>>)}
DefaultConfig == NoKeys
Configs ==
    UNION {Varied(c, "language", LanguageValues) : c \in Varied(NoKeys, "safesearch", SafesearchValues)}
    \cup {[url |-> PyStr(<<"h">>), port |-> PyInt(80)]}

\* the JSON that the backend may answer with: every payload for the
\* default query and configuration, a few for the others
FewPayloads ==
    {EmptyDict, PyDict([results |-> EmptyList]), Payload(NoKeys, Full, <<>>),
     Payload(NoKeys, AllNull, <<>>)}
Backend(query, config) ==
    IF query = DefaultQuery /\ config = DefaultConfig THEN Payloads ELSE FewPayloads

(***************************************************************************)
(* SearxngBot.search                                                       *)
(***************************************************************************)
VARIABLES
    pc,             \* the statement of search that runs next
    query,          \* the argument query of search, reassigned at line 42
    config,         \* self.config
    params,         \* the parameters of the request sent to the backend, if any
    data,           \* the response handed to parse_json
    search_data,    \* the local search_data of search
    download,       \* get_thumbnail_url: how the download of the image ended
    content_type,   \* get_thumbnail_url: what filetype.guess returned
    upload,         \* get_thumbnail_url: how the call of upload_media ended
    thumbnail_url,  \* what get_thumbnail_url returned
    message,        \* the local message of search
    replies         \* the calls of evt.reply, in order

vars == <<pc, query, config, params, data, search_data, download, content_type, upload,
          thumbnail_url, message, replies>>

\* the last reply, if any
reply == IF replies = <<>> THEN "none" ELSE replies[Len(replies)]

\* what get_thumbnail_url can return: "" or the mxc URL of the upload
MxcUrl == PyStr(<<"m","x","c",":","/","/","s","/","i">>)
ThumbnailUrls == {EmptyStr, MxcUrl}

\* the queries are tried with the default configuration and the
\* configurations with the default query
Init ==
    /\ pc = "search"
    /\ query \in Queries
    /\ config \in Configs
    /\ query = DefaultQuery \/ config = DefaultConfig
    /\ params = PyNone
    /\ data = PyNone
    /\ search_data = PyNone
    /\ download = "none"
    /\ content_type = "unset"
    /\ upload = "none"
    /\ thumbnail_url = PyNone
    /\ message = PyNone
    /\ replies = <<>>

\* lines 40-45
Search ==
    /\ pc = "search"
    /\ query' = sanitize(query)
    /\ IF query' = <<>>
       THEN replies' = Append(replies, "usage") /\ pc' = "done"
       ELSE replies' = replies /\ pc' = "get_result"
    /\ UNCHANGED <<config, params, data, search_data, download, content_type, upload,
                   thumbnail_url, message>>

\* lines 47 and 57-76: the parameters are built outside the try; the
\* request ends with a JSON response, with aiohttp.ClientError, or with an
\* exception that is no ClientError (asyncio.TimeoutError when the total
\* timeout of line 70 expires)
GetResult ==
    /\ pc = "get_result"
    /\ IF get_safesearch(config).t = "raised"
       THEN pc' = "raised" /\ UNCHANGED <<params, data>>
       ELSE /\ params' = [q          |-> query,
                          language   |-> get_language(config),
                          format     |-> <<"j","s","o","n">>,
                          safesearch |-> get_safesearch(config),
                          url        |-> get_address(config)]
            /\ \/ \E json \in Backend(query, config) : data' = json /\ pc' = "parse_json"
               \/ data' = EmptyStr /\ pc' = "parse_json"
               \/ data' = data /\ pc' = "raised"
    /\ UNCHANGED <<query, config, search_data, download, content_type, upload,
                   thumbnail_url, message, replies>>

\* lines 48-51
ParseJson ==
    /\ pc = "parse_json"
    /\ search_data' = parse_json(data)
    /\ pc' = IF search_data'.t = "raised" THEN "raised"
             ELSE IF ~Truthy(search_data') THEN "done"
             ELSE "thumbnail"
    /\ replies' = IF search_data'.t # "raised" /\ ~Truthy(search_data')
                  THEN Append(replies, "failed") ELSE replies
    /\ UNCHANGED <<query, config, params, data, download, content_type, upload,
                   thumbnail_url, message>>

\* lines 52 and 165-168: the thumbnail is downloaded; ClientError and every
\* other exception are caught at lines 183-186
Download ==
    /\ pc = "thumbnail"
    /\ Truthy(search_data.thumbnail)
    /\ \E outcome \in {"ok", "ClientError", "Exception"} :
           /\ download' = outcome
           /\ IF outcome = "ok"
              THEN pc' = "guess" /\ thumbnail_url' = thumbnail_url
              ELSE pc' = "assign" /\ thumbnail_url' = EmptyStr
    /\ UNCHANGED <<query, config, params, data, search_data, content_type, upload,
                   message, replies>>

\* Guess uploading whatever was classified, image or not
Guess_without_image_check ==
    /\ pc = "guess"
    /\ \E guessed \in {"none", "image", "other"} :
           /\ content_type' = guessed
           /\ IF guessed = "none"
              THEN pc' = "assign" /\ thumbnail_url' = EmptyStr
              ELSE pc' = "upload" /\ thumbnail_url' = thumbnail_url
    /\ UNCHANGED <<query, config, params, data, search_data, download, upload,
                   message, replies>>

\* lines 169-175: filetype.guess returns None, an image type or another type
Guess ==
    /\ pc = "guess"
    /\ \E guessed \in {"none", "image", "other"} :
           /\ content_type' = guessed
           /\ IF guessed = "image"
              THEN pc' = "upload" /\ thumbnail_url' = thumbnail_url
              ELSE pc' = "assign" /\ thumbnail_url' = EmptyStr
    /\ UNCHANGED <<query, config, params, data, search_data, download, upload,
                   message, replies>>

\* lines 176-187: upload_media returns the mxc URL or raises
Upload ==
    /\ pc = "upload"
    /\ \E outcome \in {"ok", "Exception"} :
           /\ upload' = outcome
           /\ IF outcome = "ok"
              THEN \E mxc \in ThumbnailUrls \ {EmptyStr} : thumbnail_url' = mxc
              ELSE thumbnail_url' = EmptyStr
    /\ pc' = "assign"
    /\ UNCHANGED <<query, config, params, data, search_data, download, content_type,
                   message, replies>>

\* ResolveThumbnail assigning to the thumbnail whether it was empty or not
ResolveThumbnail_unconditional ==
    /\ \/ /\ pc = "thumbnail"
          /\ ~Truthy(search_data.thumbnail)
          /\ search_data' = [search_data EXCEPT !.thumbnail = EmptyStr]
       \/ /\ pc = "assign"
          /\ search_data' = [search_data EXCEPT !.thumbnail = thumbnail_url]
    /\ pc' = "prepare_message"
    /\ UNCHANGED <<query, config, params, data, download, content_type, upload,
                   thumbnail_url, message, replies>>

\* lines 52-53: the assignment to search_data.thumbnail, skipped when the
\* thumbnail is empty
ResolveThumbnail ==
    /\ \/ /\ pc = "thumbnail"
          /\ ~Truthy(search_data.thumbnail)
          /\ UNCHANGED search_data
       \/ /\ pc = "assign"
          /\ search_data' = [search_data EXCEPT !.thumbnail = thumbnail_url]
    /\ pc' = "prepare_message"
    /\ UNCHANGED <<query, config, params, data, download, content_type, upload,
                   thumbnail_url, message, replies>>

\* lines 54-55
PrepareMessage ==
    /\ pc = "prepare_message"
    /\ message' = prepare_message(search_data)
    /\ replies' = Append(replies, "message")
    /\ pc' = "done"
    /\ UNCHANGED <<query, config, params, data, search_data, download, content_type,
                   upload, thumbnail_url>>

Next ==
    \/ Search
    \/ GetResult
    \/ ParseJson
    \/ Download
    \/ Guess
    \/ Upload
    \/ ResolveThumbnail
    \/ PrepareMessage

Spec == Init /\ [][Next]_vars

(***************************************************************************)
(* Properties                                                              *)
(***************************************************************************)
\* the payload has a non-empty results list
HasResults ==
    /\ data.t = "dict"
    /\ "results" \in DOMAIN data.d
    /\ data.d["results"].t = "list"
    /\ data.d["results"].l # <<>>
\* the raw result entry results[0]
RawEntry == data.d["results"].l[1].d
\* parse_json has just returned a record
Returned == pc = "thumbnail"
\* prepare_message has built the message that was sent
Rendered == pc = "done" /\ reply = "message"

SectionsOf(blocks) == {blocks[i].sec : i \in DOMAIN blocks}
\* the blocks that an optional field of the record switches on
OptionalSections ==
    {"pub_date", "length", "views", "author", "authors", "publisher", "journal", "doi",
     "issn", "seeders_leechers", "filesize", "download", "package_name", "maintainer",
     "project", "license", "metadata", "content", "comment", "links", "address", "pdf",
     "thumbnail"}

\* C1, as claimed: in every message built by prepare_message, each optional
\* section is in the markdown body if and only if it is in the HTML
\* formatted_body.
C1_SectionsAgree ==
    Rendered =>
        \A sec \in OptionalSections :
            sec \in SectionsOf(message.body) <=> sec \in SectionsOf(message.formatted_body)

\* C1, amended: each optional section other than the thumbnail is in the
\* markdown body if and only if it is in the HTML formatted_body; the
\* thumbnail cell is in the HTML exactly when the record has a thumbnail,
\* and is never in the body.
C1_SectionsAgreeExceptThumbnail ==
    Rendered =>
        /\ \A sec \in OptionalSections \ {"thumbnail"} :
               sec \in SectionsOf(message.body) <=> sec \in SectionsOf(message.formatted_body)
        /\ "thumbnail" \notin SectionsOf(message.body)
        /\ "thumbnail" \in SectionsOf(message.formatted_body) <=> Truthy(search_data.thumbnail)

\* a message with optional sections in both strings and a thumbnail cell
C1_Witness ==
    /\ Rendered
    /\ {"pdf", "length", "address", "links"} \subseteq SectionsOf(message.body)
    /\ "thumbnail" \in SectionsOf(message.formatted_body)

\* C2, as claimed: parse_json returns None for a falsy payload, a payload
\* without a results key and a payload whose results list is empty, and a
\* SearchData record for every payload whose results list is not empty.
C2_NoneOrRecord ==
    pc # "parse_json" =>
        /\ (~Truthy(data) \/ "results" \notin DOMAIN data.d \/ data.d["results"] = EmptyList)
               => search_data = PyNone
        /\ HasResults => search_data.t = "SearchData"

\* C3: the outcome of parse_json depends on results[0] alone: every payload
\* with the same first entry, whatever its later entries and its other
\* top-level keys, gives the record that this payload gave.
C3_OnlyFirstResult ==
    Returned =>
        \A top \in TopLevels, tail \in Tails :
            parse_json(Payload(top, RawEntry, tail)) = search_data

\* a record parsed from a payload with other top-level keys and with later
\* entries that differ from the first
C3_Witness ==
    /\ Returned
    /\ "query" \in DOMAIN data.d
    /\ Len(data.d["results"].l) > 1
    /\ data.d["results"].l[2] # data.d["results"].l[1]
    /\ search_data.title = PyStr(Sample["title"])

\* the characters of the engine field between "SearXNG (" and ")"
HumanizedPart(engine) == SubSeq(engine.s, Len(SearXNGPrefix) + 1, Len(engine.s) - 1)
\* the raw engine is missing, null or empty
NoRawEngine == "engine" \notin DOMAIN RawEntry \/ ~Truthy(RawEntry["engine"])

\* C4: the engine field of a returned record is "SearXNG (" + humanized
\* name + ")", it is never the raw identifier, and it is "SearXNG ()" when
\* the raw engine is missing, null or empty.
C4_EngineWrapped ==
    Returned =>
        LET engine == search_data.engine IN
        /\ engine.t = "str"
        /\ Len(engine.s) >= Len(SearXNGPrefix) + 1
        /\ SubSeq(engine.s, 1, Len(SearXNGPrefix)) = SearXNGPrefix
        /\ engine.s[Len(engine.s)] = ")"
        /\ "engine" \in DOMAIN RawEntry => engine # RawEntry["engine"]
        /\ NoRawEngine => engine.s = <<"S","e","a","r","X","N","G"," ","(",")">>
        /\ ~NoRawEngine =>
               HumanizedPart(engine) = translate_engine(PyStr(replace(RawEntry["engine"].s, ".", " ")))

\* a record whose raw engine was a dotted identifier
C4_Witness ==
    /\ Returned
    /\ RawEntry = [engine |-> PyStr(<<"g","o","o","g","l","e",".","i","m","a","g","e","s">>)]
    /\ search_data.engine.s = <<"S","e","a","r","X","N","G"," ","(","G","o","o","g","l","e"," ",
                                "I","m","a","g","e","s",")">>

\* the humanizer as the specification words it
IsSpace(c) == c \in Whitespace
Dotless(name) == [i \in DOMAIN name |-> IF name[i] = "." THEN " " ELSE name[i]]
\* the positions where a maximal run of non-whitespace starts
TokenStarts(s) == {i \in DOMAIN s : ~IsSpace(s[i]) /\ (i = 1 \/ IsSpace(s[i - 1]))}
TokenEnd(s, i) == CHOOSE j \in i..Len(s) :
                      /\ \A k \in i..j : ~IsSpace(s[k])
                      /\ (j = Len(s) \/ IsSpace(s[j + 1]))
\* the k-th smallest element of a set of numbers
Nth(set, k) == CHOOSE x \in set : Cardinality({y \in set : y < x}) = k - 1
TokensOf(s) == [k \in 1..Cardinality(TokenStarts(s)) |->
                   SubSeq(s, Nth(TokenStarts(s), k), TokenEnd(s, Nth(TokenStarts(s), k)))]
IsLetter(c) == IsLower(c) \/ IsUpper(c)
TitleCased(tok) == [i \in DOMAIN tok |->
                       IF i = 1 \/ ~IsLetter(tok[i - 1]) THEN ToUpper(tok[i]) ELSE ToLower(tok[i])]
DisplayName(tok) == IF tok \in DOMAIN engine_dict THEN engine_dict[tok] ELSE TitleCased(tok)
RECURSIVE SpaceJoined(_)
SpaceJoined(toks) ==
    IF toks = <<>> THEN <<>>
    ELSE IF Len(toks) = 1 THEN toks[1]
    ELSE SpaceJoined(SubSeq(toks, 1, Len(toks) - 1)) \o <<" ">> \o toks[Len(toks)]
Humanized(name) ==
    LET toks == TokensOf(Dotless(name)) IN SpaceJoined([k \in DOMAIN toks |-> DisplayName(toks[k])])

\* C5: the humanized engine name is the raw name with every "." replaced
\* by a space, split on whitespace, each token replaced by its entry of
\* engine_dict when it has one and title-cased otherwise, and the tokens
\* joined by single spaces; the empty name gives the empty string.
C5_Humanizer ==
    Returned /\ "engine" \in DOMAIN RawEntry /\ RawEntry["engine"].t = "str" =>
        HumanizedPart(search_data.engine) = Humanized(RawEntry["engine"].s)

\* a name with a table token, a token title-cased at its inner boundaries
\* and a token lower-cased after its first letter
C5_Witness ==
    /\ Returned
    /\ "engine" \in DOMAIN RawEntry
    /\ RawEntry["engine"] = PyStr(<<"a","r","x","i","v","\t","f","-","d","r","o","i","d"," ","A","r","X","i","v">>)
    /\ HumanizedPart(search_data.engine)
           = <<"a","r","X","i","v"," ","F","-","D","r","o","i","d"," ","A","r","x","i","v">>

\* key is missing from the raw entry e, or is null in it
Missing(e, key) == key \notin DOMAIN e
Null(e, key) == key \in DOMAIN e /\ e[key] = PyNone

\* the decimal digits of the string s denote the natural number n
RECURSIVE DigitsValue(_)
DigitsValue(s) ==
    IF s = <<>> THEN 0
    ELSE 10 * DigitsValue(SubSeq(s, 1, Len(s) - 1))
         + (CHOOSE d \in 0..9 : Digits[d + 1] = s[Len(s)])
IsDecimalOf(s, n) ==
    /\ s # <<>>
    /\ \A i \in DOMAIN s : \E d \in DOMAIN Digits : Digits[d] = s[i]
    /\ Len(s) > 1 => s[1] # "0"
    /\ DigitsValue(s) = n

\* n as at least two decimal digits
Padded(n) == IF n < 10 THEN <<"0">> \o int_str(n) ELSE int_str(n)
\* HH:MM:SS by total-seconds decomposition: the hours are not reduced
TotalHMS(n) ==
    Padded(n \div 3600) \o <<":">> \o Padded((n % 3600) \div 60) \o <<":">> \o Padded(n % 60)

\* C6, as claimed: a raw length that is present and not a string becomes
\* zero-padded HH:MM:SS by total-seconds decomposition (the hours may exceed
\* 24), a string passes through unchanged, and a null or missing length
\* stays absent (None or empty).
C6_LengthTotalSeconds ==
    Returned =>
        LET absent == Missing(RawEntry, "length") \/ Null(RawEntry, "length") IN
        /\ ~absent /\ RawEntry["length"].t = "int"
               => search_data.length = PyStr(TotalHMS(RawEntry["length"].n))
        /\ ~absent /\ RawEntry["length"].t = "str" => search_data.length = RawEntry["length"]
        /\ absent => ~Truthy(search_data.length)

\* the coerced form of a present, non-null seed or leech
CountCoerced(raw, field) ==
    /\ field.t = "str"
    /\ raw.t = "int" => IsDecimalOf(field.s, raw.n)
    /\ raw.t = "str" => field.s = raw.s

Present(v) == v # PyNone /\ v # EmptyStr /\ v # EmptyList
\* the formatted fields of the block sec of one of the two strings
ValuesOf(blocks, sec) ==
    {blocks[i].parts[j] : i \in {x \in DOMAIN blocks : blocks[x].sec = sec},
                          j \in 1..Len(blocks[CHOOSE x \in DOMAIN blocks : blocks[x].sec = sec].parts)}
    \ {Lit(text) : text \in {blocks[i].parts[j].lit :
                                i \in {x \in DOMAIN blocks : blocks[x].sec = sec},
                                j \in {y \in 1..Len(blocks[CHOOSE x \in DOMAIN blocks : blocks[x].sec = sec].parts) :
                                          "lit" \in DOMAIN blocks[CHOOSE x \in DOMAIN blocks : blocks[x].sec = sec].parts[y]}}}
ShownCount(v) == IF Present(v) THEN v.s ELSE <<"N", "/", "A">>

\* C8: the Seeders/Leechers line is in the message if and only if seed or
\* leech is present (neither None nor empty) on the record; it shows each
\* side's own value when present, "0" included, and N/A otherwise.
C8_SeedersLeechersLine ==
    Rendered =>
        LET shown == Present(search_data.seed) \/ Present(search_data.leech)
            line == ShownCount(search_data.seed) \o <<"/">> \o ShownCount(search_data.leech)
        IN /\ "seeders_leechers" \in SectionsOf(message.body) <=> shown
           /\ "seeders_leechers" \in SectionsOf(message.formatted_body) <=> shown
           /\ shown => /\ ValuesOf(message.body, "seeders_leechers") = {Val(line)}
                       /\ ValuesOf(message.formatted_body, "seeders_leechers") = {Val(line)}

\* seed "100" with leech absent shows 100/N/A
C8_Witness ==
    /\ Rendered
    /\ search_data.seed = PyStr(<<"1","0","0">>)
    /\ search_data.leech = PyNone
    /\ ValuesOf(message.body, "seeders_leechers") = {Val(<<"1","0","0","/","N","/","A">>)}

\* a seed of "0" is shown as 0, not as N/A
C8_ZeroShown ==
    /\ Rendered
    /\ search_data.seed = PyStr(<<"0">>)
    /\ ~Present(search_data.leech)
    /\ ValuesOf(message.formatted_body, "seeders_leechers") = {Val(<<"0","/","N","/","A">>)}

\* C9, as claimed: with a non-empty torrentfile path and a parsed_url of at
\* least scheme and host, torrentfile becomes scheme + "://" + host + path;
\* when torrentfile is absent or null, or parsed_url is absent, null or
\* shorter than 2, the raw torrentfile is passed through and normalization
\* still completes.
C9_TorrentfileRebuilt ==
    pc # "parse_json" /\ HasResults =>
        LET e == RawEntry
            has_path == ~Missing(e, "torrentfile") /\ Truthy(e["torrentfile"])
            has_host == ~Missing(e, "parsed_url") /\ e["parsed_url"].t = "list"
                        /\ Len(e["parsed_url"].l) >= 2
        IN /\ search_data.t = "SearchData"
           /\ has_path /\ has_host /\ Head(e["torrentfile"].s) = "/"
                  => search_data.torrentfile
                         = PyStr(e["parsed_url"].l[1].s \o <<":","/","/">> \o e["parsed_url"].l[2].s
                                 \o e["torrentfile"].s)
           /\ ~(has_path /\ has_host)
                  => IF Missing(e, "torrentfile") THEN ~Truthy(search_data.torrentfile)
                     ELSE search_data.torrentfile = e["torrentfile"]

\* the payload has exactly one result entry
OneEntry == Len(data.d["results"].l) = 1

HasLinks == ~Missing(RawEntry, "links") /\ RawEntry["links"].t = "list" /\ RawEntry["links"].l # <<>>

\* C11: the raw links array is mapped one to one and in source order into
\* LinkData entries, a missing sub-field of an entry becoming the empty
\* string; a missing, null or empty raw links array gives the empty list.
C11_LinksInOrder ==
    Returned =>
        /\ search_data.links.t = "list"
        /\ ~HasLinks => search_data.links = EmptyList
        /\ HasLinks =>
               LET raw == RawEntry["links"].l
                   links == search_data.links.l
               IN /\ Len(links) = Len(raw)
                  /\ \A i \in DOMAIN raw :
                         \A sub \in {"label", "url", "url_label"} :
                             links[i][sub] = IF Missing(raw[i].d, sub) THEN EmptyStr ELSE raw[i].d[sub]

\* three links kept in their order, and an entry without sub-fields
C11_Witness ==
    /\ Returned
    /\ HasLinks
    /\ Len(search_data.links.l) = 3
    /\ \/ /\ search_data.links.l[1].label = PyStr(<<"l", "2">>)
          /\ search_data.links.l[2].label = PyStr(<<"l", "1">>)
          /\ search_data.links.l[3].label = PyStr(<<"l", "3">>)
       \/ /\ Missing(RawEntry["links"].l[2].d, "url")
          /\ search_data.links.l[2].url = EmptyStr

\* C12, as claimed: for every payload with a non-empty results list,
\* parse_json returns a record without raising, whatever field of
\* results[0] is null, missing or of an unexpected type.
C12_NeverRaises ==
    pc # "parse_json" /\ HasResults /\ data.d["results"].l[1].t = "dict" =>
        search_data.t = "SearchData"

\* the parts of the header of one of the two strings
HeaderOf(blocks) == blocks[CHOOSE i \in DOMAIN blocks : blocks[i].sec = "header"].parts

\* C13, as claimed: the displayed URL is the first 70 characters of the URL
\* followed by "..." when the URL is longer than 70 characters and the URL
\* unchanged otherwise (exactly 70 characters: no marker); the link target
\* of the title is the untruncated URL, in body and in HTML.
C13_UrlTrimmedWhenLonger ==
    Rendered /\ search_data.url.t = "str" =>
        LET url == search_data.url.s
            shown == IF Len(url) > 70 THEN SubSeq(url, 1, 70) \o <<".", ".", ".">> ELSE url
        IN /\ HeaderOf(message.body)[2] = Val(shown)
           /\ HeaderOf(message.formatted_body)[2] = Val(shown)
           /\ HeaderOf(message.body)[6] = Val(url)
           /\ HeaderOf(message.formatted_body)[4] = Val(url)

\* the order of the sections, as the claim lists it
SectionOrder ==
    << "header", "pub_date", "length", "views", "author", "authors", "publisher", "journal",
       "doi", "issn", "seeders_leechers", "filesize", "download", "package_name", "maintainer",
       "project", "license", "metadata", "content", "comment", "links", "address", "pdf",
       "thumbnail", "footer" >>
\* the place of a section in that order
PlaceOf(sec) == CHOOSE k \in DOMAIN SectionOrder : SectionOrder[k] = sec
\* the sections of one of the two strings, without the closing of the
\* table cell, which belongs to no field
Emitted(blocks) == SelectSeq([i \in DOMAIN blocks |-> blocks[i].sec], LAMBDA sec : sec # "cell_end")
InOrder(secs) ==
    /\ \A i \in DOMAIN secs : \E k \in DOMAIN SectionOrder : SectionOrder[k] = secs[i]
    /\ \A i, j \in DOMAIN secs : i < j => PlaceOf(secs[i]) < PlaceOf(secs[j])
\* the string ends with "Results from <engine>" and what closes the markup
EndsWithFooter(blocks, engine) ==
    /\ blocks # <<>>
    /\ blocks[Len(blocks)].sec = "footer"
    /\ \E i \in DOMAIN blocks[Len(blocks)].parts :
           /\ blocks[Len(blocks)].parts[i] = Val(engine.s)
           /\ \A j \in DOMAIN blocks[Len(blocks)].parts :
                  j > i => "lit" \in DOMAIN blocks[Len(blocks)].parts[j]

\* C14: the sections of a message appear in body and in HTML in the one
\* fixed order of SectionOrder, the thumbnail in HTML only; the footer
\* "Results from <engine>" is always present and always last.
C14_FixedOrder ==
    Rendered =>
        /\ InOrder(Emitted(message.body))
        /\ InOrder(Emitted(message.formatted_body))
        /\ "thumbnail" \notin SectionsOf(message.body)
        /\ EndsWithFooter(message.body, search_data.engine)
        /\ EndsWithFooter(message.formatted_body, search_data.engine)
        /\ Emitted(message.body)[1] = "header"
        /\ Emitted(message.formatted_body)[1] = "header"

\* a message with metadata, content and a thumbnail between header and footer
C14_Witness ==
    /\ Rendered
    /\ {"header", "length", "metadata", "content", "links", "address", "pdf", "footer"}
           \subseteq SectionsOf(message.body)
    /\ "thumbnail" \in SectionsOf(message.formatted_body)
    /\ Len(Emitted(message.formatted_body)) = Len(Emitted(message.body)) + 1

\* C15: get_thumbnail_url never raises; it returns the reference of the
\* upload only when the download succeeded, the bytes were classified as
\* an image and the upload succeeded, and the empty string after every
\* failure; upload_media is never called for bytes that are not an image.
C15_ThumbnailDegrades ==
    /\ upload # "none" => download = "ok" /\ content_type = "image"
    /\ content_type # "unset" => download = "ok"
    /\ thumbnail_url # PyNone =>
           IF download = "ok" /\ content_type = "image" /\ upload = "ok"
           THEN thumbnail_url.t = "str" /\ thumbnail_url # EmptyStr
           ELSE thumbnail_url = EmptyStr
    /\ download # "none" => pc # "raised"
    /\ pc \in {"prepare_message", "done"} /\ download # "none" => thumbnail_url # PyNone

\* the upload reference returned after a successful download of an image
C15_Witness ==
    /\ pc = "assign"
    /\ download = "ok" /\ content_type = "image" /\ upload = "ok"
    /\ thumbnail_url = MxcUrl

\* the empty string returned for bytes that are not an image, without upload
C15_NotAnImage ==
    /\ pc = "assign"
    /\ content_type = "other" /\ upload = "none"
    /\ thumbnail_url = EmptyStr

\* the fetch failed or the payload has no results
NoResults ==
    \/ ~Truthy(data)
    \/ data.t # "dict"
    \/ "results" \notin DOMAIN data.d
    \/ ~Truthy(data.d["results"])

\* C16, as claimed: a command whose sanitized query is not empty sends
\* exactly one reply and raises nothing: the "Failed to find results"
\* notice, without thumbnail resolution and rendering, when the fetch
\* failed or the payload has no results, and the rendered message
\* otherwise.
C16_ExactlyOneReply ==
    pc \in {"done", "raised"} /\ query # <<>> =>
        /\ pc = "done"
        /\ Len(replies) = 1
        /\ IF NoResults
           THEN replies[1] = "failed" /\ download = "none" /\ message = PyNone
           ELSE replies[1] = "message" /\ message # PyNone

\* C17: the record built by parse_json changes at most once, in the step
\* before prepare_message, only in its thumbnail, which becomes what
\* get_thumbnail_url returned, and only when the thumbnail was not empty;
\* from prepare_message on it does not change.
C17_OnlyThumbnailReplaced ==
    [][/\ search_data.t = "SearchData" /\ search_data' # search_data =>
              /\ pc = "assign" /\ pc' = "prepare_message"
              /\ Truthy(search_data.thumbnail)
              /\ thumbnail_url # PyNone
              /\ search_data'.thumbnail = thumbnail_url
              /\ \A f \in DOMAIN search_data \ {"thumbnail"} : search_data'[f] = search_data[f]
              /\ DOMAIN search_data' = DOMAIN search_data
       /\ pc \in {"prepare_message", "done"} =>
              /\ search_data' = search_data
              /\ pc' \in {"prepare_message", "done"}
       /\ pc = "thumbnail" => search_data' = search_data]_vars

\* a rendered record that differs from the parsed one in its thumbnail alone
C17_Witness ==
    /\ Rendered
    /\ search_data.thumbnail = MxcUrl
    /\ parse_json(data).thumbnail = PyStr(Sample["thumbnail"])
    /\ search_data = [parse_json(data) EXCEPT !.thumbnail = MxcUrl]

\* C18, as claimed: the request carries safesearch "2", "1", "0" for the
\* configured values on, moderate, off and "1" for every missing or
\* unrecognized value, and the configured language when it is in the
\* locale whitelist (case-sensitive) and "all" otherwise; the lookups
\* always return.
C18_ConfigLookups ==
    pc \notin {"search", "get_result"} /\ query # <<>> =>
        /\ params # PyNone
        /\ params.safesearch
               = IF Missing(config, "safesearch") THEN PyStr(<<"1">>)
                 ELSE IF config["safesearch"] = PyStr(<<"o","n">>) THEN PyStr(<<"2">>)
                 ELSE IF config["safesearch"] = PyStr(<<"o","f","f">>) THEN PyStr(<<"0">>)
                 ELSE PyStr(<<"1">>)
        /\ params.language
               = IF ~Missing(config, "language") /\ config["language"].t = "str"
                    /\ config["language"].s \in locales
                 THEN config["language"]
                 ELSE PyStr(<<"a","l","l">>)

\* s holds the characters of part next to each other
Contains(s, part) == \E i \in 1..(Len(s) - Len(part) + 1) : SubSeq(s, i, i + Len(part) - 1) = part

\* C19, as claimed: the query sent to the backend holds no "!!" and no
\* backslash, and the backend is not queried when the sanitized query is
\* empty: the usage reply is sent instead.
C19_NoBangsSent ==
    /\ params # PyNone =>
           /\ ~Contains(params.q, <<"!", "!">>)
           /\ ~Contains(params.q, <<"\\">>)
           /\ params.q # <<>>
    /\ pc # "search" /\ query = <<>> => params = PyNone /\ replies = <<"usage">> /\ pc = "done"
====
